---- MODULE Spec2Model ----
(***************************************************************************)
(* Two programs of the firmware tree are modelled here.                    *)
(*                                                                         *)
(*  - The SiP service of the qemu_sbsa platform (src/unnamed/part_000):    *)
(*    sip_svc_init() reads the DeviceTree handed over by QEMU into a few   *)
(*    statics, sbsa_sip_smc_handler() answers SMCs from them.              *)
(*    Specification SipSpec.                                               *)
(*                                                                         *)
(*  - The BL2 post-image-load hook of the stm32mp1 platform                *)
(*    (src/plat/st/stm32mp1/bl2_plat_setup.c), build without               *)
(*    STM32MP_USE_STM32IMAGE.  Specification Bl2Spec.                      *)
(*                                                                         *)
(* 64-bit words (u_register_t, uintptr_t, uint64_t on AArch64) are pairs   *)
(* <<hi, lo>> of 32-bit halves, so that the narrowing store into a         *)
(* uint32_t field and the widening on return are what the C code does.     *)
(***************************************************************************)
EXTENDS Integers, Sequences, FiniteSets, TLC

VARIABLES
    \* ---- qemu_sbsa SiP service -------------------------------------------
    dtb,                    \* the DeviceTree at ARM_PRELOADED_DTB_BASE
    sip_state,              \* "uninit" | "ready" | "panic"
    platform_version,       \* <<platform_version_major, platform_version_minor>>
    gic_bases,              \* <<gicd_base, gicr_base>> behind sbsa_get_gicd/gicr
    gic_its_addr,           \* static uint64_t gic_its_addr
    dynamic_platform_info,  \* [num_cpus, cpu[PLATFORM_CORE_COUNT]]
    overrun,                \* the stores made past the end of cpu[], in order
    cpu_log,                \* the values printed by INFO("CPU %d: ...") per iteration
    smc_req,                \* the last SMC: [fid, x1, flags]
    smc_ret,                \* what the handler returned for it: [x0, xs]
    \* ---- stm32mp1 BL2 post-image-load hook ---------------------------------
    fw_config,              \* the dtb-registry of the FW_CONFIG blob: id -> entry or <<>>
    ddr,                    \* the DDR geometry: [base, size, s_size, shmem_size]
    bl32_image,             \* what the bytes at the BL32 load address are
    desc_table,             \* the image descriptor table as compiled
    dtb_infos,              \* the fconf dyn_cfg store: id -> entry or <<>>
    bl_mem_params,          \* the image descriptor table, as patched so far
    loaded,                 \* the image ids whose post-load hook has run
    bl2_state,              \* "boot" | "panic"
    bl2_ret                 \* the last call of the hook: [image_id, optee, err]

sip_vars == <<dtb, sip_state, platform_version, gic_bases, gic_its_addr,
              dynamic_platform_info, overrun, cpu_log, smc_req, smc_ret>>

bl2_vars == <<fw_config, ddr, bl32_image, desc_table, dtb_infos, bl_mem_params,
              loaded, bl2_state, bl2_ret>>

vars == <<sip_vars, bl2_vars>>

-----------------------------------------------------------------------------
(* Bounds of the model.                                                     *)

\* Capacity of dynamic_platform_info.cpu[]; 512 on the real platform, scaled down.
PLATFORM_CORE_COUNT == 2

\* The largest number of cpu@N nodes a DeviceTree of the model holds: one more
\* than the capacity, so that a tree describing too many cpus is among the inputs.
MaxCpuNodes == PLATFORM_CORE_COUNT + 1

-----------------------------------------------------------------------------
(* 64-bit and 32-bit words.                                                 *)

Zero64 == <<0, 0>>

\* (uint32_t)v : the store of a uintptr_t into a uint32_t field keeps the low half.
Trunc32(v) == v[2]

\* a uint32_t or int value passed as a u_register_t result
Ext64(w) == <<0, w>>

\* Values of a "reg" entry of a cpu node (#address-cells = 2): an MPIDR whose
\* Aff3 field (bits 39:32) is clear, and one where it is set.
RegValues == {<<0, 1>>, <<1, 2>>}

\* What an uninitialised uintptr_t local may hold.
JunkValues == {<<0, 0>>, <<0, 3>>}

NumaValues == {1}

\* Register values of the /intc and /intc/its nodes.
GicdValue == <<0, 4>>
GicrValue == <<0, 5>>
ItsValue  == <<0, 6>>

\* machine-version-major / machine-version-minor of the root node, and what a
\* load through the NULL pointer fdt_getprop() returns for a missing property
\* may yield.
VersionValues == {<<0, 9>>}
JunkVersions  == {<<0, 0>>, <<7, 7>>}

-----------------------------------------------------------------------------
(* The DeviceTree.  A property that is absent is <<>>.                      *)

CpuNode == [reg : {<<>>} \cup RegValues, numa : {<<>>} \cup {<<n>> : n \in NumaValues}]

\* a node that is no cpu (/cpus/cpu-map): it has neither "reg" nor "numa-node-id"
CpuMapNode == [reg |-> <<>>, numa |-> <<>>]

SeqsUpTo(S, n) == UNION {[1..k -> S] : k \in 0..n}

\* intc: "none" (no /intc), "noreg" (no reg property), "reg1" (one reg entry),
\*       "reg2" (two entries, no /intc/its), "its0" (its node without reg entry),
\*       "its" (its node with its reg entry)
IntcShapes == {"none", "noreg", "reg1", "reg2", "its0", "its"}

\* cpu_map: where /cpus/cpu-map sits among the children of /cpus
CpuMapPlaces == {"none", "before", "after"}

\* a cpu node as QEMU writes it
PlainCpu == [reg |-> <<0, 1>>, numa |-> <<>>]

\* Trees that differ in /cpus: every list of up to MaxCpuNodes cpu nodes.
CpuDtbs ==
    [hdr_ok   : {TRUE},
     version  : VersionValues,
     intc     : {"its"},
     has_cpus : {TRUE},
     cores    : SeqsUpTo(CpuNode, MaxCpuNodes),
     cpu_map  : CpuMapPlaces]

\* Trees that differ in the root's version properties and in /intc.  The three
\* readers of sip_svc_init share no state, so the two families are not crossed.
ConfigDtbs ==
    [hdr_ok   : {TRUE},
     version  : {<<>>} \cup VersionValues,
     intc     : IntcShapes,
     has_cpus : {TRUE},
     cores    : {<<>>, <<PlainCpu>>},
     cpu_map  : {"none"}]

ValidDtbs == CpuDtbs \cup ConfigDtbs

\* A tree without /cpus, and a blob whose header does not validate: the rest of
\* their content is never reached past the point where the code gives up.
DegenerateDtbs ==
    [hdr_ok   : {TRUE},
     version  : {<<>>} \cup VersionValues,
     intc     : IntcShapes,
     has_cpus : {FALSE},
     cores    : {<<>>},
     cpu_map  : {"none"}]
    \cup
    [hdr_ok   : {FALSE},
     version  : {<<>>},
     intc     : {"none"},
     has_cpus : {FALSE},
     cores    : {<<>>},
     cpu_map  : {"none"}]

Dtbs == ValidDtbs \cup DegenerateDtbs

-----------------------------------------------------------------------------
(* SMC function identifiers: the n of SIP_FUNCTION_ID(n); the SIP_FUNCTION  *)
(* prefix 0xC2000000 is common to all of them and left out.                 *)

SIP_SVC_VERSION       == 1
SIP_SVC_GET_GIC       == 100
SIP_SVC_GET_GIC_ITS   == 101
SIP_SVC_GET_CPU_COUNT == 200
SIP_SVC_GET_CPU_NODE  == 201

DefinedFids == {SIP_SVC_VERSION, SIP_SVC_GET_GIC, SIP_SVC_GET_GIC_ITS,
                SIP_SVC_GET_CPU_COUNT, SIP_SVC_GET_CPU_NODE}

\* the defined identifiers and one that no case of the switch names
Fids == DefinedFids \cup {SIP_SVC_VERSION + 1}

\* x1 of a request: every index up to the largest cpu count a tree of the model
\* yields (MaxCpuNodes cpus and a cpu-map after them), and 2^32
Indexes == {<<0, i>> : i \in 0..(MaxCpuNodes + 1)} \cup {<<1, 0>>}

\* x1 where the function reads no argument
OtherArgs == {<<0, 0>>, <<1, 0>>}

Args(smc_fid) == IF smc_fid = SIP_SVC_GET_CPU_NODE THEN Indexes ELSE OtherArgs

\* the flags argument: bit 0 set for a call from the non-secure world
Flags == {0, 1}

is_caller_non_secure(flags) == flags % 2 = 1

\* SMC_RETn(handle, x0, ...): x0 and the further result registers
SMC_RET(x0, xs) == [x0 |-> x0, xs |-> xs]

NoRet == SMC_RET("none", <<>>)

-----------------------------------------------------------------------------
(* read_platform_version                                                    *)

\* fdt32_ld(fdt_getprop(...)): the property's value, or, when the property is
\* missing, whatever a load through the NULL pointer returns.
read_platform_version(d) ==
    IF d.version # <<>> THEN {d.version} ELSE JunkVersions

-----------------------------------------------------------------------------
(* read_platform_config_from_dt                                             *)

\* sbsa_set_gic_bases / sbsa_get_gicd / sbsa_get_gicr: a pair of statics
sbsa_set_gic_bases(gicd_base, gicr_base) == <<gicd_base, gicr_base>>
sbsa_get_gicd(bases) == bases[1]
sbsa_get_gicr(bases) == bases[2]

\* The mutant of the function: the bases are stored as soon as GICD is read.
read_platform_config_eager(d, bases, its) ==
    CASE d.intc \in {"none", "noreg"}  -> [bases |-> bases, its |-> its]
      [] d.intc = "reg1"               -> [bases |-> sbsa_set_gic_bases(GicdValue, Zero64),
                                           its |-> its]
      [] d.intc \in {"reg2", "its0"}   -> [bases |-> sbsa_set_gic_bases(GicdValue, GicrValue),
                                           its |-> its]
      [] OTHER                         -> [bases |-> sbsa_set_gic_bases(GicdValue, GicrValue),
                                           its |-> ItsValue]

\* The statics after the function: it returns at the first thing it misses.
read_platform_config_from_dt(d, bases, its) ==
    CASE d.intc \in {"none", "noreg", "reg1"}
                                       -> [bases |-> bases, its |-> its]
      [] d.intc \in {"reg2", "its0"}   -> [bases |-> sbsa_set_gic_bases(GicdValue, GicrValue),
                                           its |-> its]
      [] OTHER                         -> [bases |-> sbsa_set_gic_bases(GicdValue, GicrValue),
                                           its |-> ItsValue]

-----------------------------------------------------------------------------
(* read_cpuinfo_from_dt                                                     *)

EmptyCpu == [nodeid |-> 0, mpidr |-> 0]

EmptyInfo == [num_cpus |-> 0, cpu |-> [i \in 0..(PLATFORM_CORE_COUNT - 1) |-> EmptyCpu]]

\* The nodes the while loop visits: from /cpus/cpu@0 on, every following
\* sibling that fdt_next_subnode() yields, whatever its name.
Traversal(d) ==
    IF d.cores = <<>> THEN <<>>
    ELSE d.cores \o (IF d.cpu_map = "after" THEN <<CpuMapNode>> ELSE <<>>)

\* cpu_data.mpidr = mpidr
StoredEntry(nodeid, mpidr) == [nodeid |-> nodeid, mpidr |-> Trunc32(mpidr)]

\* One iteration of the loop over `nodes`, the locals and statics in st.
RECURSIVE cpu_loop(_, _)
cpu_loop(nodes, st) ==
    IF nodes = <<>> THEN st
    ELSE LET node   == Head(nodes)
             mpidr  == IF node.reg # <<>> THEN node.reg ELSE st.mpidr
             nodeid == IF node.numa # <<>> THEN node.numa[1] ELSE st.nodeid
             entry  == StoredEntry(nodeid, mpidr)
             inside == st.cpu < PLATFORM_CORE_COUNT
         IN  cpu_loop(Tail(nodes),
                 [cpu     |-> st.cpu + 1,
                  nodeid  |-> nodeid,
                  mpidr   |-> mpidr,
                  entries |-> IF inside THEN [st.entries EXCEPT ![st.cpu] = entry]
                                        ELSE st.entries,
                  overrun |-> IF inside THEN st.overrun
                                        ELSE Append(st.overrun, entry),
                  log     |-> Append(st.log, [nodeid |-> nodeid, mpidr |-> mpidr])])

\* The function on a tree that has /cpus; junk is what the uninitialised local
\* mpidr holds, info the static before the call.
read_cpuinfo_from_dt(d, junk, info) ==
    LET st == cpu_loop(Traversal(d),
                       [cpu |-> 0, nodeid |-> 0, mpidr |-> junk,
                        entries |-> info.cpu, overrun |-> <<>>, log |-> <<>>])
    IN  [info    |-> [num_cpus |-> st.cpu, cpu |-> st.entries],
         overrun |-> st.overrun,
         log     |-> st.log]

-----------------------------------------------------------------------------
(* sip_svc_init                                                             *)

sip_svc_init ==
    /\ sip_state = "uninit"
    /\ IF ~dtb.hdr_ok
       THEN \* fdt_open_into() or fdt_check_header() failed: return
            /\ sip_state' = "ready"
            /\ UNCHANGED <<platform_version, gic_bases, gic_its_addr,
                           dynamic_platform_info, overrun, cpu_log>>
       ELSE /\ platform_version' \in read_platform_version(dtb)
            /\ LET cfg == read_platform_config_from_dt(dtb, gic_bases, gic_its_addr)
               IN  /\ gic_bases' = cfg.bases
                   /\ gic_its_addr' = cfg.its
            /\ IF ~dtb.has_cpus
               THEN \* "No information about cpus in DeviceTree." panic()
                    /\ sip_state' = "panic"
                    /\ UNCHANGED <<dynamic_platform_info, overrun, cpu_log>>
               ELSE \E junk \in JunkValues :
                      LET r == read_cpuinfo_from_dt(dtb, junk, dynamic_platform_info)
                      IN  /\ dynamic_platform_info' = r.info
                          /\ overrun' = r.overrun
                          /\ cpu_log' = r.log
                          /\ sip_state' = "ready"
    /\ UNCHANGED <<dtb, smc_req, smc_ret>>
    /\ UNCHANGED bl2_vars

-----------------------------------------------------------------------------
(* sbsa_sip_smc_handler                                                     *)

Less64(a, n) == a[1] = 0 /\ a[2] < n

\* case SIP_SVC_GET_CPU_NODE
cpu_node_reply(index, info) ==
    IF Less64(index, PLATFORM_CORE_COUNT)
    THEN SMC_RET("NULL", <<Ext64(info.cpu[index[2]].nodeid),
                           Ext64(info.cpu[index[2]].mpidr)>>)
    ELSE SMC_RET("SMC_ARCH_CALL_INVAL_PARAM", <<>>)

\* the switch (smc_fid) of the handler
sip_dispatch(smc_fid, x1) ==
    CASE smc_fid = SIP_SVC_VERSION ->
             SMC_RET("NULL", <<Ext64(platform_version[1]), Ext64(platform_version[2])>>)
      [] smc_fid = SIP_SVC_GET_GIC ->
             SMC_RET("NULL", <<sbsa_get_gicd(gic_bases), sbsa_get_gicr(gic_bases)>>)
      [] smc_fid = SIP_SVC_GET_GIC_ITS ->
             SMC_RET("NULL", <<gic_its_addr>>)
      [] smc_fid = SIP_SVC_GET_CPU_COUNT ->
             SMC_RET("NULL", <<Ext64(dynamic_platform_info.num_cpus)>>)
      [] smc_fid = SIP_SVC_GET_CPU_NODE ->
             cpu_node_reply(x1, dynamic_platform_info)
      [] OTHER ->
             SMC_RET("SMC_UNK", <<>>)

\* Mutant: the world check is left out.
sbsa_sip_smc_result_any_world(smc_fid, x1, flags) == sip_dispatch(smc_fid, x1)

\* what the handler returns
sbsa_sip_smc_result(smc_fid, x1, flags) ==
    IF ~is_caller_non_secure(flags)
    THEN SMC_RET("SMC_UNK", <<>>)
    ELSE sip_dispatch(smc_fid, x1)

sbsa_sip_smc_handler ==
    /\ sip_state = "ready"
    /\ \E smc_fid \in Fids, flags \in Flags : \E x1 \in Args(smc_fid) :
          /\ smc_req' = [fid |-> smc_fid, x1 |-> x1, flags |-> flags]
          /\ smc_ret' = sbsa_sip_smc_result(smc_fid, x1, flags)
    /\ UNCHANGED <<dtb, sip_state, platform_version, gic_bases, gic_its_addr,
                   dynamic_platform_info, overrun, cpu_log>>
    /\ UNCHANGED bl2_vars

-----------------------------------------------------------------------------
(* The SiP service: boot, then SMCs for the rest of the session.            *)

NoReq == [fid |-> 0, x1 |-> Zero64, flags |-> 0]

\* the SiP statics as the image is linked, before sip_svc_init
SipBoot(d) ==
    /\ dtb = d
    /\ sip_state = "uninit"
    /\ platform_version = <<0, 0>>
    /\ gic_bases = <<Zero64, Zero64>>
    /\ gic_its_addr = Zero64
    /\ dynamic_platform_info = EmptyInfo
    /\ overrun = <<>>
    /\ cpu_log = <<>>
    /\ smc_req = NoReq
    /\ smc_ret = NoRet

\* the BL2 hook is no part of this image
Bl2Absent ==
    /\ fw_config = <<>>
    /\ ddr = <<>>
    /\ bl32_image = "absent"
    /\ desc_table = <<>>
    /\ dtb_infos = <<>>
    /\ bl_mem_params = <<>>
    /\ loaded = {}
    /\ bl2_state = "absent"
    /\ bl2_ret = <<>>

SipInit == \E d \in Dtbs : SipBoot(d) /\ Bl2Absent

SipNext == sip_svc_init \/ sbsa_sip_smc_handler

SipSpec == SipInit /\ [][SipNext]_vars

-----------------------------------------------------------------------------
(* stm32mp1 BL2: bl2_plat_handle_post_image_load                            *)
(*                                                                         *)
(* Addresses and sizes are uint32_t / uintptr_t of an AArch32 build, in     *)
(* units of 1 MiB: the address space holds 4096 of them.                    *)

Mod32 == 4 * 1024

Add32(a, b) == (a + b) % Mod32
Sub32(a, b) == (a + Mod32 - b) % Mod32

\* The DDR geometry.  base, s_size and shmem_size are STM32MP_DDR_BASE,
\* STM32MP_DDR_S_SIZE and STM32MP_DDR_SHMEM_SIZE of the platform headers: DDR
\* starts at 0xC0000000 and its top holds the secure region and, above it, the
\* shared memory.  size is what dt_get_ddr_size() returns: the size found in
\* the DeviceTree, up to the 1 GiB STM32MP_DDR_MAX_SIZE that is mapped, or 0
\* when the property cannot be read.
DdrGeometries ==
    [base : {3072}, size : {0, 512, 1024}, s_size : {30}, shmem_size : {2}]
    \cup
    [base : {3072}, size : {512}, s_size : {16}, shmem_size : {4}]

\* const unsigned int image_ids[]
image_ids == <<"BL32_IMAGE_ID", "BL33_IMAGE_ID", "HW_CONFIG_ID", "TOS_FW_CONFIG_ID">>

ConfigIds == {image_ids[i] : i \in DOMAIN image_ids}

\* the records of the descriptor table that the hook reads or writes
ImageIds == ConfigIds \cup {"BL32_EXTRA1_IMAGE_ID", "BL32_EXTRA2_IMAGE_ID"}

\* the image ids whose hook takes the default branch of the outer switch
OtherIds == {"BL32_EXTRA1_IMAGE_ID", "HW_CONFIG_ID"}

\* struct dyn_cfg_dtb_info_t
ConfigEntry(addr, size) == [config_addr |-> addr, config_max_size |-> size]

\* The dtb-registry a FW_CONFIG blob may hold for each id; <<>> is no entry.
EntriesOf(id) ==
    CASE id = "BL32_IMAGE_ID"    -> {ConfigEntry(a, m) : a \in {3520, 3808}, m \in {16, 32}}
      [] id = "BL33_IMAGE_ID"    -> {ConfigEntry(3073, 64)}
      [] id = "HW_CONFIG_ID"     -> {ConfigEntry(3136, 1)}
      [] id = "TOS_FW_CONFIG_ID" -> {ConfigEntry(3840, m) : m \in {1, 2}}

FwConfigs == {f \in [ConfigIds -> UNION {{<<>>} \cup EntriesOf(id) : id \in ConfigIds}] :
                \A id \in ConfigIds : f[id] \in {<<>>} \cup EntriesOf(id)}

\* bl_mem_params_node_t, the fields the hook touches:
\* image_info.image_base, image_info.image_max_size, the SKIP_LOADING bit of
\* image_info.h.attr, ep_info.pc, ep_info.args.arg0..2, ep_info.lr_svc
MemParams(base, max, arg0) ==
    [image_base |-> base, image_max_size |-> max, skip_loading |-> TRUE,
     pc |-> 0, arg0 |-> arg0, arg1 |-> 0, arg2 |-> 0, lr_svc |-> 0]

\* The descriptor table as compiled: every image here is optional and starts
\* with IMAGE_ATTRIB_SKIP_LOADING; the table may or may not reserve a region
\* for TOS_FW_CONFIG, and may preset the first argument of BL32.
DescTables ==
    {[id \in ImageIds |->
        CASE id = "TOS_FW_CONFIG_ID" -> MemParams(0, tos_max, 0)
          [] id = "BL32_IMAGE_ID"    -> MemParams(0, 0, bl32_arg0)
          [] OTHER                   -> MemParams(0, 0, 0)] :
        tos_max \in {0, 4}, bl32_arg0 \in {0, 8}}

-----------------------------------------------------------------------------
(* The fconf dyn_cfg store.                                                 *)

NoInfos == [id \in ConfigIds \cup {"FW_CONFIG_ID"} |-> <<>>]

\* set_config_info(STM32MP_FW_CONFIG_BASE, STM32MP_FW_CONFIG_MAX_SIZE, FW_CONFIG_ID)
set_config_info(infos) ==
    [infos EXCEPT !["FW_CONFIG_ID"] =
        ConfigEntry("STM32MP_FW_CONFIG_BASE", "STM32MP_FW_CONFIG_MAX_SIZE")]

\* fconf_populate("FW_CONFIG", ...): the registry of the blob enters the store
fconf_populate(infos, blob) ==
    [id \in DOMAIN infos |-> IF id \in DOMAIN blob /\ blob[id] # <<>> THEN blob[id]
                             ELSE infos[id]]

\* dyn_cfg_dtb_info_get_index(id) == FCONF_INVALID_IDX
invalid_idx(infos, id) == infos[id] = <<>>

\* FCONF_GET_PROPERTY(dyn_cfg, dtb, id): the entry, or <<>> for NULL
FCONF_GET_PROPERTY(infos, id) == infos[id]

-----------------------------------------------------------------------------
(* case FW_CONFIG_ID                                                        *)

\* Mutant: the overlay is placed below the TrustedOS image instead.
paged_base_from_tos(config_info, geo) ==
    Sub32(Sub32(config_info.config_addr, geo.s_size), geo.shmem_size)

\* STM32MP_DDR_BASE + (dt_get_ddr_size() - STM32MP_DDR_S_SIZE - STM32MP_DDR_SHMEM_SIZE)
paged_base(config_info, geo) ==
    Add32(geo.base, Sub32(Sub32(geo.size, geo.s_size), geo.shmem_size))

\* Mutant: the entry's size is not copied.
patch_image_info_base_only(rec, config_info) ==
    [rec EXCEPT !.image_base = config_info.config_addr,
                !.skip_loading = FALSE]

\* image_base, image_max_size and attr of the image whose entry was found
patch_image_info(rec, config_info) ==
    [rec EXCEPT !.image_base = config_info.config_addr,
                !.image_max_size = config_info.config_max_size,
                !.skip_loading = FALSE]

\* Mutant: the TrustedOS case takes TOS_FW_CONFIG for the pager image.
apply_config_wrong_pager(mem, id, config_info, geo) ==
    LET m1 == [mem EXCEPT ![id] = patch_image_info(mem[id], config_info)]
    IN  CASE id = "BL32_IMAGE_ID" ->
                 [m1 EXCEPT
                     ![id].pc = config_info.config_addr,
                     !["TOS_FW_CONFIG_ID"].image_base = config_info.config_addr,
                     !["TOS_FW_CONFIG_ID"].image_max_size = config_info.config_max_size,
                     !["BL32_EXTRA2_IMAGE_ID"].image_base = paged_base(config_info, geo),
                     !["BL32_EXTRA2_IMAGE_ID"].image_max_size = geo.s_size]
          [] id = "BL33_IMAGE_ID" ->
                 [m1 EXCEPT ![id].pc = config_info.config_addr]
          [] OTHER -> m1

\* The body of the loop for one id whose entry config_info was found.  The ids
\* of image_ids[] are all named by the inner switch, so its default branch
\* (return -EINVAL) is never taken; HW_CONFIG_ID and TOS_FW_CONFIG_ID only break.
apply_config(mem, id, config_info, geo) ==
    LET m1 == [mem EXCEPT ![id] = patch_image_info(mem[id], config_info)]
    IN  CASE id = "BL32_IMAGE_ID" ->
                 [m1 EXCEPT
                     ![id].pc = config_info.config_addr,
                     !["BL32_EXTRA1_IMAGE_ID"].image_base = config_info.config_addr,
                     !["BL32_EXTRA1_IMAGE_ID"].image_max_size = config_info.config_max_size,
                     !["BL32_EXTRA2_IMAGE_ID"].image_base = paged_base(config_info, geo),
                     !["BL32_EXTRA2_IMAGE_ID"].image_max_size = geo.s_size]
          [] id = "BL33_IMAGE_ID" ->
                 [m1 EXCEPT ![id].pc = config_info.config_addr]
          [] OTHER -> m1

\* neither of the two `continue` of the loop is taken for id
config_found(infos, id) ==
    /\ ~(id = "TOS_FW_CONFIG_ID" /\ invalid_idx(infos, "TOS_FW_CONFIG_ID"))
    /\ FCONF_GET_PROPERTY(infos, id) # <<>>

\* for (i = 0U; i < ARRAY_SIZE(image_ids); i++) from position i on
RECURSIVE resolve_from(_, _, _, _)
resolve_from(i, mem, infos, geo) ==
    IF i > Len(image_ids) THEN mem
    ELSE LET id == image_ids[i]
         IN  resolve_from(i + 1,
                 IF config_found(infos, id)
                 THEN apply_config(mem, id, FCONF_GET_PROPERTY(infos, id), geo)
                 ELSE mem,
                 infos, geo)

Ret(image_id, optee, err) == [image_id |-> image_id, optee |-> optee, err |-> err]

post_load_fw_config ==
    /\ bl2_state = "boot"
    /\ "FW_CONFIG_ID" \notin loaded
    /\ dtb_infos' = fconf_populate(set_config_info(dtb_infos), fw_config)
    /\ bl_mem_params' = resolve_from(1, bl_mem_params, dtb_infos', ddr)
    /\ loaded' = loaded \cup {"FW_CONFIG_ID"}
    /\ bl2_ret' = Ret("FW_CONFIG_ID", "none", "0")
    /\ UNCHANGED <<fw_config, ddr, bl32_image, desc_table, bl2_state>>
    /\ UNCHANGED sip_vars

-----------------------------------------------------------------------------
(* case BL32_IMAGE_ID                                                       *)

\* The bytes at the BL32 load address: no OP-TEE header ("monolithic"), or a
\* header that optee_header_is_valid() accepts and that parse_optee_header()
\* rejects ("bad"), that leaves the load areas to the loader ("keep"), or that
\* names the load addresses itself ("header").
Bl32Images == {"monolithic", "bad", "keep", "header"}

optee_header_is_valid(image) == image # "monolithic"

\* the load addresses a header names
HeaderBases == [pager |-> 3553, paged |-> 3600]

\* parse_optee_header(&ep_info, &pager image_info, &paged image_info) returning 0
parse_optee_header(mem, image) ==
    IF image = "keep"
    THEN [mem EXCEPT !["BL32_IMAGE_ID"].pc = mem["BL32_EXTRA1_IMAGE_ID"].image_base,
                     !["BL32_IMAGE_ID"].arg0 = 1,
                     !["BL32_IMAGE_ID"].arg1 = 1,
                     !["BL32_IMAGE_ID"].arg2 = 1]
    ELSE [mem EXCEPT !["BL32_IMAGE_ID"].pc = HeaderBases.pager,
                     !["BL32_IMAGE_ID"].arg0 = 1,
                     !["BL32_IMAGE_ID"].arg1 = 1,
                     !["BL32_IMAGE_ID"].arg2 = 1,
                     !["BL32_EXTRA1_IMAGE_ID"].image_base = HeaderBases.pager,
                     !["BL32_EXTRA2_IMAGE_ID"].image_base = HeaderBases.paged]

\* the branch of an OP-TEE header whose parse succeeded
bl32_composite(mem, image) ==
    LET m1 == [mem EXCEPT !["BL32_IMAGE_ID"].pc = mem["BL32_IMAGE_ID"].image_base]
        m2 == parse_optee_header(m1, image)
    IN  [m2 EXCEPT !["BL32_IMAGE_ID"].arg0 = m2["BL32_EXTRA2_IMAGE_ID"].image_base,
                   !["BL32_IMAGE_ID"].arg1 = 0,
                   !["BL32_IMAGE_ID"].arg2 = 0]

\* Mutant: the TOS_FW_CONFIG size is folded in only when its entry was found.
bl32_monolithic_guarded(mem) ==
    [mem EXCEPT !["BL32_IMAGE_ID"].pc = mem["BL32_IMAGE_ID"].image_base,
                !["BL32_IMAGE_ID"].image_max_size =
                    IF mem["TOS_FW_CONFIG_ID"].skip_loading
                    THEN mem["BL32_IMAGE_ID"].image_max_size
                    ELSE Add32(mem["BL32_IMAGE_ID"].image_max_size,
                               mem["TOS_FW_CONFIG_ID"].image_max_size),
                !["BL32_IMAGE_ID"].arg0 = 0]

\* Mutant: the first argument is left as it was.
bl32_monolithic_keeps_arg0(mem) ==
    [mem EXCEPT !["BL32_IMAGE_ID"].pc = mem["BL32_IMAGE_ID"].image_base,
                !["BL32_IMAGE_ID"].image_max_size =
                    Add32(mem["BL32_IMAGE_ID"].image_max_size,
                          mem["TOS_FW_CONFIG_ID"].image_max_size)]

\* the else branch: BL32 is no OP-TEE header
bl32_monolithic(mem) ==
    [mem EXCEPT !["BL32_IMAGE_ID"].pc = mem["BL32_IMAGE_ID"].image_base,
                !["BL32_IMAGE_ID"].image_max_size =
                    Add32(mem["BL32_IMAGE_ID"].image_max_size,
                          mem["TOS_FW_CONFIG_ID"].image_max_size),
                !["BL32_IMAGE_ID"].arg0 = 0]

\* The hook runs once per image of the load list, FW_CONFIG first.  The cache
\* maintenance that ends the hook (STM32MP_SDMMC || STM32MP_EMMC) changes none
\* of the records and is left out.
MayLoad(image_id) ==
    /\ bl2_state = "boot"
    /\ "FW_CONFIG_ID" \in loaded
    /\ image_id \notin loaded

post_load_bl32 ==
    /\ MayLoad("BL32_IMAGE_ID")
    /\ loaded' = loaded \cup {"BL32_IMAGE_ID"}
    /\ IF optee_header_is_valid(bl32_image)
       THEN IF bl32_image = "bad"
            THEN \* "OPTEE header parse error." panic()
                 /\ bl2_state' = "panic"
                 /\ bl_mem_params' =
                       [bl_mem_params EXCEPT !["BL32_IMAGE_ID"].pc =
                            bl_mem_params["BL32_IMAGE_ID"].image_base]
                 /\ bl2_ret' = Ret("BL32_IMAGE_ID", "composite", "panic")
            ELSE /\ bl_mem_params' = bl32_composite(bl_mem_params, bl32_image)
                 /\ bl2_ret' = Ret("BL32_IMAGE_ID", "composite", "0")
                 /\ UNCHANGED bl2_state
       ELSE /\ bl_mem_params' = bl32_monolithic(bl_mem_params)
            /\ bl2_ret' = Ret("BL32_IMAGE_ID", "monolithic", "0")
            /\ UNCHANGED bl2_state
    /\ UNCHANGED <<fw_config, ddr, bl32_image, desc_table, dtb_infos>>
    /\ UNCHANGED sip_vars

-----------------------------------------------------------------------------
(* case BL33_IMAGE_ID, and default                                          *)

\* Mutant: the loader's entry point is copied over the TrustedOS entry point too.
post_load_bl33_patches_pc ==
    /\ MayLoad("BL33_IMAGE_ID")
    /\ loaded' = loaded \cup {"BL33_IMAGE_ID"}
    /\ bl_mem_params' = [bl_mem_params EXCEPT
                             !["BL32_IMAGE_ID"].lr_svc = bl_mem_params["BL33_IMAGE_ID"].pc,
                             !["BL32_IMAGE_ID"].pc = bl_mem_params["BL33_IMAGE_ID"].pc]
    /\ bl2_ret' = Ret("BL33_IMAGE_ID", "none", "0")
    /\ UNCHANGED <<fw_config, ddr, bl32_image, desc_table, dtb_infos, bl2_state>>
    /\ UNCHANGED sip_vars

post_load_bl33 ==
    /\ MayLoad("BL33_IMAGE_ID")
    /\ loaded' = loaded \cup {"BL33_IMAGE_ID"}
    /\ bl_mem_params' = [bl_mem_params EXCEPT !["BL32_IMAGE_ID"].lr_svc =
                             bl_mem_params["BL33_IMAGE_ID"].pc]
    /\ bl2_ret' = Ret("BL33_IMAGE_ID", "none", "0")
    /\ UNCHANGED <<fw_config, ddr, bl32_image, desc_table, dtb_infos, bl2_state>>
    /\ UNCHANGED sip_vars

post_load_default ==
    \E image_id \in OtherIds :
        /\ MayLoad(image_id)
        /\ loaded' = loaded \cup {image_id}
        /\ bl2_ret' = Ret(image_id, "none", "0")
        /\ UNCHANGED <<fw_config, ddr, bl32_image, desc_table, dtb_infos,
                       bl_mem_params, bl2_state>>
        /\ UNCHANGED sip_vars

-----------------------------------------------------------------------------
(* BL2: the hook called for each image of the load list.                    *)

\* the SiP service is no part of this image
SipAbsent ==
    /\ dtb = <<>>
    /\ sip_state = "absent"
    /\ platform_version = <<0, 0>>
    /\ gic_bases = <<Zero64, Zero64>>
    /\ gic_its_addr = Zero64
    /\ dynamic_platform_info = EmptyInfo
    /\ overrun = <<>>
    /\ cpu_log = <<>>
    /\ smc_req = NoReq
    /\ smc_ret = NoRet

Bl2Init ==
    /\ SipAbsent
    /\ fw_config \in FwConfigs
    /\ ddr \in DdrGeometries
    /\ bl32_image \in Bl32Images
    /\ desc_table \in DescTables
    /\ dtb_infos = NoInfos
    /\ bl_mem_params = desc_table
    /\ loaded = {}
    /\ bl2_state = "boot"
    /\ bl2_ret = Ret("none", "none", "0")

Bl2Next == post_load_fw_config \/ post_load_bl32 \/ post_load_bl33 \/ post_load_default

Bl2Spec == Bl2Init /\ [][Bl2Next]_vars

-----------------------------------------------------------------------------
(* C1: a call whose flags do not mark a non-secure caller returns SMC_UNK   *)
(* alone, for every function id, argument and content of the statics: the  *)
(* very result an unrecognised function id gets, and no cached value.       *)
C1_SecureCallerGetsUnknown ==
    (smc_ret # NoRet /\ ~is_caller_non_secure(smc_req.flags))
        => /\ smc_ret.x0 = "SMC_UNK"
           /\ smc_ret.xs = <<>>
           /\ smc_ret = sip_dispatch(SIP_SVC_VERSION + 1, smc_req.x1)

\* a secure-world cpu-node call for a cpu the cache holds is refused
C1_Witness ==
    /\ smc_req.fid = SIP_SVC_GET_CPU_NODE
    /\ smc_req.flags = 0
    /\ smc_req.x1 = <<0, 0>>
    /\ dynamic_platform_info.num_cpus > 0
    /\ dynamic_platform_info.cpu[0].mpidr # 0
    /\ smc_ret = SMC_RET("SMC_UNK", <<>>)

\* a non-secure cpu-node call that the handler has answered
CpuNodeAnswered ==
    /\ sip_state = "ready"
    /\ smc_ret # NoRet
    /\ smc_req.fid = SIP_SVC_GET_CPU_NODE
    /\ is_caller_non_secure(smc_req.flags)

\* the index of the request lies below n
IndexBelow(n) == smc_req.x1[1] = 0 /\ smc_req.x1[2] < n

(* C2: after init, for every i < num_cpus a non-secure cpu-node call with   *)
(* index i returns (NULL, node id, affinity) as read from the i-th node of  *)
(* the traversal.                                                           *)
C2_CpuNodeReturnsParsedPair ==
    (CpuNodeAnswered /\ IndexBelow(dynamic_platform_info.num_cpus))
        => smc_ret = SMC_RET("NULL", <<Ext64(cpu_log[smc_req.x1[2] + 1].nodeid),
                                       cpu_log[smc_req.x1[2] + 1].mpidr>>)

(* C3: whatever the number of cpu nodes of the tree, num_cpus is at most    *)
(* PLATFORM_CORE_COUNT and no entry is stored at or past the end of cpu[].  *)
C3_CpuCountWithinCapacity ==
    /\ dynamic_platform_info.num_cpus <= PLATFORM_CORE_COUNT
    /\ overrun = <<>>

(* C4: a cpu-node call with num_cpus <= index never gets a (NULL, node id,  *)
(* affinity) result, that is an entry the traversal did not produce.        *)
C4_NoEntryBeyondCpuCount ==
    (CpuNodeAnswered /\ ~IndexBelow(dynamic_platform_info.num_cpus))
        => smc_ret.x0 # "NULL"

\* the tree has no /intc, or /intc lacks one of its first two reg entries
IntcIncomplete == dtb.hdr_ok /\ dtb.intc \in {"none", "noreg", "reg1"}

(* C9: with no /intc node, or one of its first two reg entries missing,     *)
(* discovery goes on without a fatal error, the GICD, GICR and ITS bases    *)
(* keep their unset value 0, and a later non-secure GIC or ITS call returns *)
(* those values in a normal (NULL, ...) result.                             *)
C9_MissingIntcLeavesBasesUnset ==
    (IntcIncomplete /\ sip_state # "uninit")
        => /\ dtb.has_cpus => sip_state = "ready"
           /\ gic_bases = <<Zero64, Zero64>>
           /\ gic_its_addr = Zero64
           /\ (smc_ret # NoRet /\ is_caller_non_secure(smc_req.flags)
                 /\ smc_req.fid = SIP_SVC_GET_GIC)
                => smc_ret = SMC_RET("NULL", <<Zero64, Zero64>>)
           /\ (smc_ret # NoRet /\ is_caller_non_secure(smc_req.flags)
                 /\ smc_req.fid = SIP_SVC_GET_GIC_ITS)
                => smc_ret = SMC_RET("NULL", <<Zero64>>)

\* /intc has its GICD entry only, and a GIC-bases call was answered
C9_Witness ==
    /\ dtb.hdr_ok /\ dtb.intc = "reg1"
    /\ sip_state = "ready"
    /\ smc_req.fid = SIP_SVC_GET_GIC
    /\ is_caller_non_secure(smc_req.flags)
    /\ smc_ret = SMC_RET("NULL", <<Zero64, Zero64>>)

-----------------------------------------------------------------------------
(* The claims about the BL2 hook.                                           *)

\* the Config Store holds an entry for id
HasEntry(id) == id \in DOMAIN dtb_infos /\ dtb_infos[id] # <<>>

\* the state the FW_CONFIG pass leaves, before any other hook has run
JustResolved == loaded = {"FW_CONFIG_ID"}

\* base and size of the record are the compiled ones
AtDefaults(id) ==
    /\ bl_mem_params[id].image_base = desc_table[id].image_base
    /\ bl_mem_params[id].image_max_size = desc_table[id].image_max_size

(* C5, as claimed: the FW_CONFIG pass leaves every image identity without   *)
(* Config Store entry with skip_loading set and base and size at their      *)
(* compiled defaults, and clears skip_loading only where the entry was      *)
(* found.                                                                   *)
C5_AbsentIdentityUntouched ==
    JustResolved =>
        \A id \in ImageIds :
            /\ ~HasEntry(id) => (bl_mem_params[id].skip_loading /\ AtDefaults(id))
            /\ ~bl_mem_params[id].skip_loading => HasEntry(id)

(* C5, amended: the same for every identity but the pager and paged-overlay *)
(* sub-images of TrustedOS; those two never have an entry, keep             *)
(* skip_loading set, and keep their compiled base and size only when        *)
(* TrustedOS has no entry.                                                  *)
C5_AbsentListedIdentityUntouched ==
    JustResolved =>
        /\ \A id \in ConfigIds :
              ~HasEntry(id) => bl_mem_params[id] = desc_table[id]
        /\ \A id \in ImageIds \ ConfigIds :
              /\ bl_mem_params[id].skip_loading
              /\ ~HasEntry("BL32_IMAGE_ID") => bl_mem_params[id] = desc_table[id]
        /\ \A id \in ImageIds :
              ~bl_mem_params[id].skip_loading => HasEntry(id)

\* TrustedOS was found, the hardware and TrustedOS configs were not
C5_Witness ==
    /\ JustResolved
    /\ HasEntry("BL32_IMAGE_ID") /\ ~bl_mem_params["BL32_IMAGE_ID"].skip_loading
    /\ ~HasEntry("HW_CONFIG_ID") /\ bl_mem_params["HW_CONFIG_ID"].skip_loading
    /\ ~HasEntry("TOS_FW_CONFIG_ID")
    /\ desc_table["TOS_FW_CONFIG_ID"].image_max_size > 0
    /\ AtDefaults("TOS_FW_CONFIG_ID")

(* C6, as claimed: for every identity with a Config Store entry, in every   *)
(* state after the FW_CONFIG pass, the later hooks included, base equals    *)
(* the entry's address and max size the entry's max size.                   *)
C6_ResolvedPlacementKept ==
    "FW_CONFIG_ID" \in loaded =>
        \A id \in ConfigIds :
            HasEntry(id) =>
                /\ bl_mem_params[id].image_base = dtb_infos[id].config_addr
                /\ bl_mem_params[id].image_max_size = dtb_infos[id].config_max_size

\* the TrustedOS hook has run and took the monolithic branch
MonolithicDone == "BL32_IMAGE_ID" \in loaded /\ ~optee_header_is_valid(bl32_image)

(* C6, amended: in every state after the FW_CONFIG pass base equals the     *)
(* entry's address, and max size the entry's max size, except that after a  *)
(* monolithic TrustedOS hook the TrustedOS max size is the entry's max size *)
(* plus the max size of the TOS_FW_CONFIG record.                           *)
C6_ResolvedPlacementKeptButMonolithic ==
    "FW_CONFIG_ID" \in loaded =>
        \A id \in ConfigIds :
            HasEntry(id) =>
                /\ bl_mem_params[id].image_base = dtb_infos[id].config_addr
                /\ bl_mem_params[id].image_max_size =
                      IF id = "BL32_IMAGE_ID" /\ MonolithicDone
                      THEN dtb_infos[id].config_max_size
                              + bl_mem_params["TOS_FW_CONFIG_ID"].image_max_size
                      ELSE dtb_infos[id].config_max_size

\* all hooks have run on a monolithic TrustedOS, both entries were found
C6_Witness ==
    /\ MonolithicDone
    /\ "BL33_IMAGE_ID" \in loaded
    /\ HasEntry("BL32_IMAGE_ID") /\ HasEntry("TOS_FW_CONFIG_ID") /\ HasEntry("BL33_IMAGE_ID")
    /\ bl_mem_params["BL32_IMAGE_ID"].image_max_size
          = dtb_infos["BL32_IMAGE_ID"].config_max_size
              + dtb_infos["TOS_FW_CONFIG_ID"].config_max_size
    /\ bl_mem_params["BL33_IMAGE_ID"].image_base = dtb_infos["BL33_IMAGE_ID"].config_addr

(* C7: when the FW_CONFIG pass finds the TrustedOS entry, it places the     *)
(* paged overlay at ddr_base + ddr_size - secure_size - shared_size with    *)
(* max size secure_size, whatever the address and size of the TrustedOS     *)
(* entry: the placement is a function of the DDR geometry alone.            *)
C7_PagedOverlayAtTopOfSecureDdr ==
    ("FW_CONFIG_ID" \in loaded /\ HasEntry("BL32_IMAGE_ID")
        /\ "BL32_IMAGE_ID" \notin loaded)
        => /\ bl_mem_params["BL32_EXTRA2_IMAGE_ID"].image_base
                 = ddr.base + ddr.size - ddr.s_size - ddr.shmem_size
           /\ bl_mem_params["BL32_EXTRA2_IMAGE_ID"].image_max_size = ddr.s_size

\* 512 MiB of DDR, TrustedOS at the higher of its two addresses
C7_Witness ==
    /\ JustResolved
    /\ HasEntry("BL32_IMAGE_ID")
    /\ dtb_infos["BL32_IMAGE_ID"].config_addr = 3808
    /\ ddr.size = 512 /\ ddr.s_size = 30
    /\ bl_mem_params["BL32_EXTRA2_IMAGE_ID"].image_base = 3552
    /\ bl_mem_params["BL32_EXTRA1_IMAGE_ID"].image_base = 3808

\* the step of the TrustedOS hook on an image without OP-TEE header
MonolithicHook ==
    /\ "BL32_IMAGE_ID" \notin loaded
    /\ "BL32_IMAGE_ID" \in loaded'
    /\ ~optee_header_is_valid(bl32_image)

(* C8: the TrustedOS hook on an image the classifier does not recognise     *)
(* returns without fatal error, and leaves the entry point equal to the     *)
(* base address, the max size equal to the max size before the hook plus    *)
(* the max size of the TOS_FW_CONFIG record, and the first argument 0.      *)
C8_MonolithicTrustedOS ==
    [][MonolithicHook =>
          /\ bl2_state' = "boot"
          /\ bl2_ret' = Ret("BL32_IMAGE_ID", "monolithic", "0")
          /\ bl_mem_params'["BL32_IMAGE_ID"].pc = bl_mem_params'["BL32_IMAGE_ID"].image_base
          /\ bl_mem_params'["BL32_IMAGE_ID"].image_base
                = bl_mem_params["BL32_IMAGE_ID"].image_base
          /\ bl_mem_params'["BL32_IMAGE_ID"].image_max_size
                = bl_mem_params["BL32_IMAGE_ID"].image_max_size
                    + bl_mem_params["TOS_FW_CONFIG_ID"].image_max_size
          /\ bl_mem_params'["BL32_IMAGE_ID"].arg0 = 0]_vars

\* a monolithic TrustedOS whose record held a first argument, both entries found
C8_Witness ==
    /\ MonolithicDone
    /\ bl2_ret = Ret("BL32_IMAGE_ID", "monolithic", "0")
    /\ desc_table["BL32_IMAGE_ID"].arg0 # 0
    /\ bl_mem_params["BL32_IMAGE_ID"].arg0 = 0
    /\ HasEntry("BL32_IMAGE_ID") /\ HasEntry("TOS_FW_CONFIG_ID")
    /\ bl_mem_params["BL32_IMAGE_ID"].pc = dtb_infos["BL32_IMAGE_ID"].config_addr
    /\ bl_mem_params["BL32_IMAGE_ID"].image_max_size
          > dtb_infos["BL32_IMAGE_ID"].config_max_size

(* C10, as claimed: in the monolithic branch the TOS_FW_CONFIG max size is  *)
(* added to the TrustedOS max size only when the TOS_FW_CONFIG entry was    *)
(* found in the Config Store; when it was absent the TrustedOS max size is  *)
(* not extended.                                                            *)
C10_ConfigSizeFoldedOnlyIfPopulated ==
    [][MonolithicHook =>
          bl_mem_params'["BL32_IMAGE_ID"].image_max_size
             = IF HasEntry("TOS_FW_CONFIG_ID")
               THEN bl_mem_params["BL32_IMAGE_ID"].image_max_size
                       + dtb_infos["TOS_FW_CONFIG_ID"].config_max_size
               ELSE bl_mem_params["BL32_IMAGE_ID"].image_max_size]_vars

(* C10, amended: the monolithic branch always adds the max size the         *)
(* TOS_FW_CONFIG record holds: the entry's max size when the entry was      *)
(* found, the compiled default of the record when it was absent.            *)
C10_ConfigSizeAlwaysFolded ==
    [][MonolithicHook =>
          bl_mem_params'["BL32_IMAGE_ID"].image_max_size
             = bl_mem_params["BL32_IMAGE_ID"].image_max_size
                 + (IF HasEntry("TOS_FW_CONFIG_ID")
                    THEN dtb_infos["TOS_FW_CONFIG_ID"].config_max_size
                    ELSE desc_table["TOS_FW_CONFIG_ID"].image_max_size)]_vars

\* no TOS_FW_CONFIG entry, a compiled TOS_FW_CONFIG region, TrustedOS extended by it
C10_Witness ==
    /\ MonolithicDone
    /\ ~HasEntry("TOS_FW_CONFIG_ID")
    /\ bl_mem_params["TOS_FW_CONFIG_ID"].skip_loading
    /\ desc_table["TOS_FW_CONFIG_ID"].image_max_size > 0
    /\ HasEntry("BL32_IMAGE_ID")
    /\ bl_mem_params["BL32_IMAGE_ID"].image_max_size
          = dtb_infos["BL32_IMAGE_ID"].config_max_size
              + desc_table["TOS_FW_CONFIG_ID"].image_max_size

\* the step of the normal-world loader's hook
LoaderHook == "BL33_IMAGE_ID" \notin loaded /\ "BL33_IMAGE_ID" \in loaded'

(* C11: once the FW_CONFIG pass has found the normal-world loader's entry   *)
(* and the loader's hook has run, with or without the TrustedOS hook before *)
(* or after it, the TrustedOS return address (lr_svc) equals the loader's   *)
(* entry point, which equals the loader's address in the Config Store; and  *)
(* the loader's hook changes no other field of the TrustedOS record.        *)
C11_ReturnAddressIsLoaderEntry ==
    [][/\ ("BL33_IMAGE_ID" \in loaded' /\ dtb_infos'["BL33_IMAGE_ID"] # <<>>)
            => /\ bl_mem_params'["BL32_IMAGE_ID"].lr_svc
                     = bl_mem_params'["BL33_IMAGE_ID"].pc
               /\ bl_mem_params'["BL33_IMAGE_ID"].pc
                     = dtb_infos'["BL33_IMAGE_ID"].config_addr
       /\ LoaderHook
            => bl_mem_params'["BL32_IMAGE_ID"]
                  = [bl_mem_params["BL32_IMAGE_ID"] EXCEPT
                        !.lr_svc = bl_mem_params'["BL32_IMAGE_ID"].lr_svc]]_vars

\* the loader's entry was found, and both its hook and that of a TrustedOS
\* image with an OP-TEE header have run
C11_Witness ==
    /\ HasEntry("BL33_IMAGE_ID")
    /\ "BL33_IMAGE_ID" \in loaded /\ "BL32_IMAGE_ID" \in loaded
    /\ bl32_image = "header"
    /\ bl_mem_params["BL32_IMAGE_ID"].lr_svc = dtb_infos["BL33_IMAGE_ID"].config_addr
    /\ bl_mem_params["BL32_IMAGE_ID"].lr_svc # 0
    /\ bl_mem_params["BL32_IMAGE_ID"].pc # bl_mem_params["BL32_IMAGE_ID"].lr_svc

====
